---- MODULE Spec2Model ----
(***************************************************************************)
(* A model of skeletonkey (bones): the YAML composition resolver of        *)
(* config.py (find_yaml_path, open_yaml, the defaults merge, the keyring   *)
(* expansion, the flag flattening and config_to_nested_config), the Config *)
(* object, and the multi-decoration counter of core.unlock.                *)
(*                                                                         *)
(* Python values are tagged records [t, v]: a str is a sequence of         *)
(* one-character strings, a dict is a sequence of [k, v] pairs in          *)
(* insertion order with distinct keys, a list is a sequence of values.     *)
(***************************************************************************)
EXTENDS Integers, Sequences, FiniteSets, TLC

VARIABLES
    fs,       \* the files under the configuration directory: path -> parsed content
    pc,       \* position of the one call the behaviour makes
    ret,      \* what load_yaml_config returned or raised
    before,   \* its outcome before the root document was last rewritten
    req,      \* the path handed to find_yaml_path
    found,    \* what find_yaml_path returned or raised
    M,        \* the nested mapping handed to add_args_from_dict
    environ,  \* os.environ
    parser,   \* the flags add_args_from_dict registered: name -> default
    nested,   \* what config_to_nested_config built
    cfg,      \* the attributes of one Config object
    last,     \* the last operation on cfg and its outcome
    argv,     \* the config keywords given a path on the command line
    counter,  \* unlock._command_line_unlock, or "unset" before the setattr
    calls,    \* the unlock calls made so far, each with its outcome
    given,    \* the positional and the keyword arguments handed to Config(...)
    built     \* what Config(...) returned or raised

vars == <<fs, pc, ret, before, req, found, M, environ, parser, nested, cfg, last, argv, counter, calls, given, built>>

----------------------------------------------------------------------------
(* Python values *)

StrV(s) == [t |-> "str", v |-> s]
IntV(n) == [t |-> "int", v |-> n]
DictV(d) == [t |-> "dict", v |-> d]
ListV(l) == [t |-> "list", v |-> l]
NoneV == [t |-> "none", v |-> 0]
Missing == [t |-> "missing", v |-> 0]

Pair(key, value) == [k |-> key, v |-> value]

\* isinstance(x, dict), isinstance(x, str), isinstance(x, list)
IsDict(x) == x.t = "dict"
IsStr(x) == x.t = "str"
IsList(x) == x.t = "list"

\* bool(x) for the values a YAML document holds
Truthy(x) ==
    CASE x.t = "none" -> FALSE
      [] x.t = "int" -> x.v # 0
      [] OTHER -> Len(x.v) > 0

\* an outcome of a call: a returned value, or the exception that left it
Ok(value) == [exc |-> "", val |-> value]
Raise(e) == [exc |-> e, val |-> NoneV]

(* dict operations on sequences of pairs: key in d, d[key], d[key] = value, del d[key] *)
DictKeys(d) == {d[i].k : i \in 1..Len(d)}
DictHas(d, key) == \E i \in 1..Len(d) : d[i].k = key
DictGet(d, key) == d[CHOOSE i \in 1..Len(d) : d[i].k = key].v
DictSet(d, key, value) ==
    IF DictHas(d, key)
    THEN [i \in 1..Len(d) |-> IF d[i].k = key THEN Pair(key, value) ELSE d[i]]
    ELSE Append(d, Pair(key, value))
DictDel(d, key) == SelectSeq(d, LAMBDA p : p.k # key)

----------------------------------------------------------------------------
(* Program constants and strings *)

BASE_DEFAULT_KEYWORD == <<"d", "e", "f", "a", "u", "l", "t", "s">>
BASE_COLLECTION_KEYWORD == <<"k", "e", "y", "r", "i", "n", "g">>
YamlExt == <<".", "y", "a", "m", "l">>
YmlExt == <<".", "y", "m", "l">>

\* str.endswith
EndsWith(s, suffix) ==
    /\ Len(s) >= Len(suffix)
    /\ SubSeq(s, Len(s) - Len(suffix) + 1, Len(s)) = suffix

\* str.rfind, 1-based; 0 when the character does not occur
RFind(s, c) ==
    IF \E i \in 1..Len(s) : s[i] = c
    THEN CHOOSE i \in 1..Len(s) : s[i] = c /\ \A j \in (i + 1)..Len(s) : s[j] # c
    ELSE 0

\* os.path.splitext: the last dot of the last component splits the path, unless
\* only dots come before it in that component
SplitExt(p) ==
    LET sepIndex == RFind(p, "/")
        dotIndex == RFind(p, ".")
    IN  IF dotIndex > sepIndex /\ \E j \in (sepIndex + 1)..(dotIndex - 1) : p[j] # "."
        THEN [base |-> SubSeq(p, 1, dotIndex - 1), ext |-> SubSeq(p, dotIndex, Len(p))]
        ELSE [base |-> p, ext |-> <<>>]

\* os.path.join of two components
PathJoin(a, b) ==
    IF Len(b) > 0 /\ b[1] = "/" THEN b
    ELSE IF a = <<>> \/ a[Len(a)] = "/" THEN a \o b
    ELSE a \o <<"/">> \o b

----------------------------------------------------------------------------
(* Document loader *)

\* the rest of a function after a call: an exception leaves it, a value goes on
Bind(outcome, rest(_)) == IF outcome.exc # "" THEN outcome ELSE rest(outcome.val)

IsFile(path) == path \in DOMAIN fs /\ fs[path] # Missing

\* probes that try the .yaml path first
probe_yaml_first(yml_path, yaml_path) ==
    IF IsFile(yaml_path) THEN Ok(yaml_path)
    ELSE IF IsFile(yml_path) THEN Ok(yml_path)
    ELSE Raise("FileNotFoundError")

\* the two probes of find_yaml_path, in the order the code makes them
probe_yaml_paths(yml_path, yaml_path) ==
    IF IsFile(yml_path) THEN Ok(yml_path)
    ELSE IF IsFile(yaml_path) THEN Ok(yaml_path)
    ELSE Raise("FileNotFoundError")

find_yaml_path(file_path) ==
    probe_yaml_paths(SplitExt(file_path).base \o YmlExt, SplitExt(file_path).base \o YamlExt)

\* a loader that takes an empty document for an error
open_yaml_rejecting_empty(path) ==
    Bind(find_yaml_path(path),
         LAMBDA p : IF fs[p] = NoneV THEN Raise("TypeError") ELSE Ok(fs[p]))

open_yaml(path) == Bind(find_yaml_path(path), LAMBDA p : Ok(fs[p]))

add_yaml_extension(path) ==
    IF ~EndsWith(path, YamlExt) /\ ~EndsWith(path, YmlExt)
    THEN path \o YamlExt
    ELSE path

----------------------------------------------------------------------------
(* Path flattener *)

\* new_key of dict_to_path
new_key_of(parent_key, key) == IF parent_key # <<>> THEN PathJoin(parent_key, key) ELSE key

RECURSIVE dict_to_path_items(_, _, _), dict_to_path_list(_, _, _), dict_to_path_value(_, _)
\* the loop of dict_to_path over the items i.. of the dictionary
dict_to_path_items(dictionary, parent_key, i) ==
    IF i > Len(dictionary) THEN <<>>
    ELSE dict_to_path_value(dictionary[i].v, new_key_of(parent_key, dictionary[i].k))
            \o dict_to_path_items(dictionary, parent_key, i + 1)
\* the three branches on the type of one value
dict_to_path_value(value, new_key) ==
    IF IsDict(value) THEN dict_to_path_items(value.v, new_key, 1)
    ELSE IF IsList(value) THEN dict_to_path_list(value.v, new_key, 1)
    ELSE <<PathJoin(new_key, value.v)>>
\* the inner loop over the items j.. of a list value
dict_to_path_list(value, new_key, j) ==
    IF j > Len(value) THEN <<>>
    ELSE (IF IsDict(value[j]) THEN dict_to_path_items(value[j].v, new_key, 1)
          ELSE <<PathJoin(new_key, value[j].v)>>)
            \o dict_to_path_list(value, new_key, j + 1)

dict_to_path(dictionary, parent_key) == dict_to_path_items(dictionary, parent_key, 1)

\* [add_yaml_extension(filename) for filename in default_yaml]
add_yaml_extensions(paths) == [i \in 1..Len(paths) |-> add_yaml_extension(paths[i])]

get_default_yaml_paths_from_dict(default_yaml) ==
    add_yaml_extensions(dict_to_path(default_yaml, <<>>))

----------------------------------------------------------------------------
(* Composition resolver *)

RECURSIVE UpdateAll(_, _, _)
\* for key, value in config_dict.items(): acc[key] = value
UpdateAll(acc, config_dict, i) ==
    IF i > Len(config_dict) THEN acc
    ELSE UpdateAll(DictSet(acc, config_dict[i].k, config_dict[i].v), config_dict, i + 1)

RECURSIVE MergeFragments(_, _, _)
\* the dict comprehension of get_default_args_from_dict: every key of every
\* non-empty fragment is assigned in order, so a later assignment replaces an earlier
MergeFragments(acc, default_configs, i) ==
    IF i > Len(default_configs) THEN acc
    ELSE MergeFragments(
            IF Truthy(default_configs[i]) THEN UpdateAll(acc, default_configs[i].v, 1) ELSE acc,
            default_configs, i + 1)

\* the list comprehension of get_default_args_from_dict: the first open_yaml that
\* raises ends it, otherwise the documents come back in order
Collect(opened) ==
    IF \E i \in 1..Len(opened) : opened[i].exc # ""
    THEN opened[CHOOSE i \in 1..Len(opened) :
                    opened[i].exc # "" /\ \A j \in 1..(i - 1) : opened[j].exc = ""]
    ELSE Ok([i \in 1..Len(opened) |-> opened[i].val])

open_each(config_path, yaml_paths) ==
    Collect([i \in 1..Len(yaml_paths) |-> open_yaml(PathJoin(config_path, yaml_paths[i]))])

\* .items() of a non-empty document that is no mapping raises
merge_default_configs(default_configs) ==
    IF \E i \in 1..Len(default_configs) :
            Truthy(default_configs[i]) /\ ~IsDict(default_configs[i])
    THEN Raise("AttributeError")
    ELSE Ok(DictV(MergeFragments(<<>>, default_configs, 1)))

get_default_args_from_dict(config_path, default_yaml) ==
    Bind(open_each(config_path, get_default_yaml_paths_from_dict(default_yaml)),
         merge_default_configs)

get_default_args_from_path(config_path, default_yaml) ==
    open_yaml(PathJoin(config_path, add_yaml_extension(default_yaml)))

\* a merge that lets the fragment's value replace the one already present
UpdateOverwriting(config, default_config, i) == UpdateAll(config, default_config, i)

RECURSIVE UpdateAbsent(_, _, _)
\* config.update((key, value) for key, value in default_config.items() if key not in config)
UpdateAbsent(config, default_config, i) ==
    IF i > Len(default_config) THEN config
    ELSE UpdateAbsent(
            IF ~DictHas(config, default_config[i].k)
            THEN DictSet(config, default_config[i].k, default_config[i].v)
            ELSE config,
            default_config, i + 1)

\* if default_config: config.update(...)
merge_if_any(config, default_config) ==
    IF Truthy(default_config) /\ ~IsDict(default_config) THEN Raise("AttributeError")
    ELSE IF Truthy(default_config) THEN Ok(DictV(UpdateAbsent(config, default_config.v, 1)))
    ELSE Ok(DictV(config))

\* the local default_config before its first assignment
Unbound == [t |-> "unbound", v |-> 0]

\* what `for default_yaml in default_path_dict` iterates: the items of a list, the
\* characters of a str
IterItems(x) ==
    IF IsList(x) THEN x.v ELSE [i \in 1..Len(x.v) |-> StrV(<<x.v[i]>>)]

\* the two isinstance branches of the loop body; any other item leaves default_config
\* as the iteration before left it
load_item(config_path, default_yaml, default_config) ==
    IF IsDict(default_yaml) THEN get_default_args_from_dict(config_path, default_yaml.v)
    ELSE IF IsStr(default_yaml) THEN get_default_args_from_path(config_path, default_yaml.v)
    ELSE IF default_config = Unbound THEN Raise("UnboundLocalError")
    ELSE Ok(default_config)

RECURSIVE defaults_loop(_, _, _, _, _), defaults_next(_, _, _, _, _)
\* the loop of load_yaml_config over the items i.. of a non-mapping defaults value
defaults_loop(config, config_path, items, i, default_config) ==
    IF i > Len(items) THEN Ok(DictV(config))
    ELSE Bind(load_item(config_path, items[i], default_config),
              LAMBDA loaded : defaults_next(config, config_path, items, i, loaded))
\* the merge of item i and the rest of the loop
defaults_next(config, config_path, items, i, default_config) ==
    Bind(merge_if_any(config, default_config),
         LAMBDA merged : defaults_loop(merged.v, config_path, items, i + 1, default_config))

\* lines 274-301: the two forms of the defaults value
merge_defaults(config, config_path, default_path_dict) ==
    IF IsDict(default_path_dict)
    THEN Bind(get_default_args_from_dict(config_path, default_path_dict.v),
              LAMBDA default_config : merge_if_any(config, default_config))
    ELSE IF IsList(default_path_dict) \/ IsStr(default_path_dict)
    THEN defaults_loop(config, config_path, IterItems(default_path_dict), 1, Unbound)
    ELSE Raise("TypeError")

\* lines 273-302: the defaults branch, entered when default_keyword is a key of config
resolve_defaults(config, config_path, default_keyword) ==
    Bind(merge_defaults(config, config_path, DictGet(config, default_keyword)),
         LAMBDA merged : Ok(DictV(DictDel(merged.v, default_keyword))))

----------------------------------------------------------------------------
(* Keyring expander *)

RECURSIVE collection_entry_loop(_, _, _, _)
\* the inner loop of unpack_collection over the sub-entries i.. of one entry
collection_entry_loop(sub, config_path, collection_entry, i) ==
    IF i > Len(collection_entry) THEN Ok(DictV(sub))
    ELSE Bind(get_default_args_from_path(config_path, collection_entry[i].v.v),
              LAMBDA subconfig :
                collection_entry_loop(DictSet(sub, collection_entry[i].k, subconfig),
                                      config_path, collection_entry, i + 1))

\* the value one collection entry expands to
expand_entry(config_path, collection_entry) ==
    IF IsDict(collection_entry)
    THEN collection_entry_loop(<<>>, config_path, collection_entry.v, 1)
    ELSE get_default_args_from_path(config_path, collection_entry.v)

\* the outcome of unpack_collection: exc when it raises, otherwise the config as it
\* left it and what it handed back ("ValueError": the exception object of line 315)
Unpacked(e, config, handed_back) == [exc |-> e, val |-> config, returned |-> handed_back]

RECURSIVE unpack_collection_loop(_, _, _, _, _), unpack_collection_next(_, _, _, _, _, _)
\* the loop of unpack_collection over the entries i.. of the collection
unpack_collection_loop(config, config_path, collection_keyword, collections_dict, i) ==
    IF i > Len(collections_dict)
    THEN Unpacked("", DictV(DictDel(config, collection_keyword)), "None")
    ELSE IF DictHas(config, collections_dict[i].k)
    THEN Unpacked("", DictV(config), "ValueError")
    ELSE unpack_collection_next(config, config_path, collection_keyword, collections_dict, i,
                                expand_entry(config_path, collections_dict[i].v))
\* the assignment of entry i and the rest of the loop
unpack_collection_next(config, config_path, collection_keyword, collections_dict, i, subconfig) ==
    IF subconfig.exc # "" THEN Unpacked(subconfig.exc, NoneV, "None")
    ELSE unpack_collection_loop(DictSet(config, collections_dict[i].k, subconfig.val),
                                config_path, collection_keyword, collections_dict, i + 1)

unpack_collection(config, config_path, collection_keyword) ==
    IF ~IsDict(DictGet(config, collection_keyword))
    THEN Unpacked("AttributeError", NoneV, "None")
    ELSE unpack_collection_loop(config, config_path, collection_keyword,
                                DictGet(config, collection_keyword).v, 1)

\* the call of line 305 as a statement: what unpack_collection hands back is dropped,
\* an exception it raises goes on, the config it changed in place stays
call_and_drop(unpacked) ==
    IF unpacked.exc # "" THEN Raise(unpacked.exc) ELSE Ok(unpacked.val)

\* lines 304-308
expand_collection(config, config_path, collection_keyword) ==
    IF DictHas(config.v, collection_keyword)
    THEN call_and_drop(unpack_collection(config.v, config_path, collection_keyword))
    ELSE Ok(config)

\* lines 273-308, on the document open_yaml gave
load_opened(config, config_path, default_keyword, collection_keyword) ==
    IF ~IsDict(config) THEN Raise("TypeError")
    ELSE Bind(IF DictHas(config.v, default_keyword)
              THEN resolve_defaults(config.v, config_path, default_keyword)
              ELSE Ok(config),
              LAMBDA resolved : expand_collection(resolved, config_path, collection_keyword))

load_yaml_config(config_path, config_name, default_keyword, collection_keyword) ==
    Bind(open_yaml(PathJoin(config_path, config_name)),
         LAMBDA config : load_opened(config, config_path, default_keyword, collection_keyword))

----------------------------------------------------------------------------
(* The documents and files of the model *)

\* the longest defaults sequence a root document declares
MaxItems == 2

ConfigDir == <<"c">>
ConfigName == <<"r">>
RootFile == <<"c", "/", "r", ".", "y", "a", "m", "l">>

KeyA == <<"a">>
KeyB == <<"b">>
KeyK == <<"k">>
KeyN == <<"n">>
NameP == <<"p">>
NameQ == <<"q">>
NamePQ == <<"p", "q">>
DirM == <<"m">>

FileP == PathJoin(ConfigDir, NameP \o YamlExt)
FileQ == PathJoin(ConfigDir, NameQ \o YamlExt)
FileMP == PathJoin(ConfigDir, PathJoin(DirM, NameP \o YamlExt))
FileMQ == PathJoin(ConfigDir, PathJoin(DirM, NameQ \o YamlExt))
FilePQ == PathJoin(ConfigDir, NamePQ \o YamlExt)
FragFiles == {FileP, FileQ, FileMP, FileMQ}

\* every fragment file writes its own value, so a resolved value names its source;
\* the root document writes 1
FileVal(f) ==
    CASE f = FileP -> 2 [] f = FileQ -> 3 [] f = FileMP -> 4 [] f = FileMQ -> 5 [] OTHER -> 6

Shapes == {"missing", "empty", "a", "ab"}

\* what yaml.safe_load gives for a fragment file of the given shape
Content(f, shape) ==
    CASE shape = "missing" -> Missing
      [] shape = "empty" -> NoneV
      [] shape = "a" -> DictV(<<Pair(KeyA, IntV(FileVal(f)))>>)
      [] OTHER -> DictV(<<Pair(KeyA, IntV(FileVal(f))), Pair(KeyB, IntV(FileVal(f)))>>)

RootData == { <<>>, <<Pair(KeyA, IntV(1))>>, <<Pair(KeyB, IntV(1))>>,
              <<Pair(KeyA, IntV(1)), Pair(KeyB, IntV(1))>> }

\* path selectors: {m: [p, q]}, {m: [q, p]}, {m: p}
SelPQ == DictV(<<Pair(DirM, ListV(<<StrV(NameP), StrV(NameQ)>>))>>)
SelQP == DictV(<<Pair(DirM, ListV(<<StrV(NameQ), StrV(NameP)>>))>>)
SelP == DictV(<<Pair(DirM, StrV(NameP))>>)

SeqItems == {StrV(NameP), StrV(NameQ), SelPQ}
RECURSIVE SeqsUpTo(_, _)
SeqsUpTo(S, n) ==
    IF n = 0 THEN {<<>>}
    ELSE LET shorter == SeqsUpTo(S, n - 1)
         IN  shorter \cup {Append(s, x) : s \in {t \in shorter : Len(t) = n - 1}, x \in S}

MappingDecls == {SelPQ, SelQP, SelP}
SequenceDecls == {ListV(s) : s \in SeqsUpTo(SeqItems, MaxItems)}
StringDecls == {StrV(NameP), StrV(NamePQ)}
DefaultsDecls == MappingDecls \cup SequenceDecls \cup StringDecls

\* keyrings: {a: p}, {k: {n: q}}, {k: p, a: q}, {defaults: p}
Keyrings == {
    <<Pair(KeyA, StrV(NameP))>>,
    <<Pair(KeyK, DictV(<<Pair(KeyN, StrV(NameQ))>>))>>,
    <<Pair(KeyK, StrV(NameP)), Pair(KeyA, StrV(NameQ))>>,
    <<Pair(BASE_DEFAULT_KEYWORD, StrV(NameP))>> }

Roots ==
    RootData
    \cup {Append(d, Pair(BASE_DEFAULT_KEYWORD, decl)) : d \in RootData, decl \in DefaultsDecls}
    \cup {Append(d, Pair(BASE_COLLECTION_KEYWORD, DictV(kr))) : d \in RootData, kr \in Keyrings}
    \cup {d \o <<Pair(BASE_DEFAULT_KEYWORD, decl), Pair(BASE_COLLECTION_KEYWORD, DictV(kr))>> :
             d \in RootData, decl \in {SelPQ, ListV(<<StrV(NameP)>>)}, kr \in Keyrings}

FileSystems ==
    { [f \in FragFiles \cup {RootFile, FilePQ} |->
            IF f = RootFile THEN DictV(root)
            ELSE IF f = FilePQ THEN Content(f, "ab")
            ELSE Content(f, shape[f])] :
        root \in Roots, shape \in [FragFiles -> Shapes] }

----------------------------------------------------------------------------
(* Idle values of the variables a specification does not use *)

Idle == [exc |-> "", val |-> NoneV]

LoadIdle == fs = <<>> /\ ret = Idle /\ before = Idle
FindIdle == req = <<>> /\ found = Idle
FlatIdle == M = <<>> /\ environ = <<>> /\ parser = Idle /\ nested = Idle
ConfigIdle == cfg = <<>> /\ last = Idle
UnlockIdle == argv = {} /\ counter = NoneV /\ calls = <<>>
ConstructIdle == given = <<>> /\ built = Idle

----------------------------------------------------------------------------
(* load_yaml_config on one configuration directory *)

InitLoad ==
    /\ fs \in FileSystems
    /\ pc = "idle"
    /\ ret = Idle
    /\ before = Idle
    /\ FindIdle /\ FlatIdle /\ ConfigIdle /\ UnlockIdle /\ ConstructIdle

LoadYamlConfig ==
    /\ pc = "idle"
    /\ pc' = "done"
    /\ ret' = load_yaml_config(ConfigDir, ConfigName, BASE_DEFAULT_KEYWORD, BASE_COLLECTION_KEYWORD)
    /\ UNCHANGED <<fs, before, req, found, M, environ, parser, nested, cfg, last, argv, counter, calls, given, built>>

NextLoad == LoadYamlConfig

SpecLoad == InitLoad /\ [][NextLoad]_vars

----------------------------------------------------------------------------
(* What the claims about load_yaml_config speak of *)

Root == fs[RootFile].v
Returned == pc = "done" /\ ret.exc = ""
Result == ret.val.v
Keywords == {BASE_DEFAULT_KEYWORD, BASE_COLLECTION_KEYWORD}
DeclaresDefaults == DictHas(Root, BASE_DEFAULT_KEYWORD)
Declaration == DictGet(Root, BASE_DEFAULT_KEYWORD)

\* two dicts with the same keys and the same value under each
SameMapping(d, e) ==
    /\ DictKeys(d) = DictKeys(e)
    /\ \A key \in DictKeys(d) : DictGet(d, key) = DictGet(e, key)

RECURSIVE ItemFiles(_, _)
\* the fragment paths the items i.. of a defaults sequence declare, in order
ItemFiles(items, i) ==
    IF i > Len(items) THEN <<>>
    ELSE (IF IsDict(items[i]) THEN get_default_yaml_paths_from_dict(items[i].v)
          ELSE <<add_yaml_extension(items[i].v)>>) \o ItemFiles(items, i + 1)

\* the fragments of the root document in declaration order (mapping and sequence form)
DeclaredFiles ==
    IF ~DeclaresDefaults THEN <<>>
    ELSE IF IsDict(Declaration) THEN get_default_yaml_paths_from_dict(Declaration.v)
    ELSE IF IsList(Declaration) THEN ItemFiles(Declaration.v, 1)
    ELSE <<>>

\* the document of the i-th declared fragment
Fragment(i) == fs[PathJoin(ConfigDir, DeclaredFiles[i])]
Holders(key) ==
    {i \in 1..Len(DeclaredFiles) : IsDict(Fragment(i)) /\ DictHas(Fragment(i).v, key)}
Earliest(S) == CHOOSE i \in S : \A j \in S : i <= j
FragmentKeys ==
    UNION {DictKeys(Fragment(i).v) : i \in {j \in 1..Len(DeclaredFiles) : IsDict(Fragment(j))}}

\* a keyring entry of the root document named like another top-level key of it
RootCollision ==
    /\ DictHas(Root, BASE_COLLECTION_KEYWORD)
    /\ IsDict(DictGet(Root, BASE_COLLECTION_KEYWORD))
    /\ \E key \in DictKeys(DictGet(Root, BASE_COLLECTION_KEYWORD).v) : DictHas(Root, key)

\* the document at <string>.yaml, for a defaults value that is one string
NamedFragment ==
    LET file == PathJoin(ConfigDir, add_yaml_extension(Declaration.v))
    IN  IF file \in DOMAIN fs THEN fs[file] ELSE Missing

(* C1: whenever load_yaml_config returns, every key of the root document other than
   the two consumed keywords is a key of the resolved mapping and holds the root
   document's value; a default fragment, in the mapping form or the sequence form of
   the declaration, never replaces it. *)
C1_RootPrecedence ==
    Returned =>
        \A key \in DictKeys(Root) \ Keywords :
            DictHas(Result, key) /\ DictGet(Result, key) = DictGet(Root, key)

\* a returned resolution in which a root key is also a key of a merged fragment, in
\* the sequence form, and another fragment key was added
C1_Witness ==
    /\ Returned
    /\ DeclaresDefaults /\ IsList(Declaration)
    /\ \E key \in DictKeys(Root) \ Keywords : Holders(key) # {}
    /\ \E key \in DictKeys(Result) : ~DictHas(Root, key) /\ Holders(key) # {}

(* C2: whenever load_yaml_config returns, every key absent from the root document and
   present in two or more declared default fragments holds, in the resolved mapping,
   the value of the fragment earliest in declaration order. *)
C2_EarliestFragmentWins ==
    Returned =>
        \A key \in FragmentKeys :
            (~DictHas(Root, key) /\ Cardinality(Holders(key)) >= 2) =>
                /\ DictHas(Result, key)
                /\ DictGet(Result, key) = DictGet(Fragment(Earliest(Holders(key))).v, key)

(* C3: when a keyring entry of the root document bears the name of another top-level
   key of the root document, load_yaml_config does not return normally: the collision
   reaches the caller as an error. *)
C3_CollisionRaises ==
    (pc = "done" /\ RootCollision) => ret.exc # ""

(* C4: when the defaults value is a single string path, load_yaml_config returns the
   root document's other keys merged, under root precedence, with exactly the one
   fragment the whole string names. *)
C4_BareStringLoadsOneFragment ==
    (pc = "done" /\ DeclaresDefaults /\ IsStr(Declaration)
        /\ ~DictHas(Root, BASE_COLLECTION_KEYWORD)
        /\ IsDict(NamedFragment)) =>
            /\ Returned
            /\ SameMapping(Result,
                    UpdateAbsent(DictDel(Root, BASE_DEFAULT_KEYWORD), NamedFragment.v, 1))

(* C5: whenever load_yaml_config returns a mapping, neither the defaults keyword nor
   the collection keyword is a top-level key of it. *)
C5_KeywordsStripped ==
    Returned => \A keyword \in Keywords : ~DictHas(Result, keyword)

----------------------------------------------------------------------------
(* Resolution before and after an empty fragment is taken out of the declaration *)

RemoveAt(s, i) == SubSeq(s, 1, i - 1) \o SubSeq(s, i + 1, Len(s))

\* a path selector with one of its fragments taken out, and the path of that fragment
SelectorReductions(sel) ==
    {[decl |-> RemoveAt(sel, i),
      file |-> add_yaml_extension(PathJoin(sel[i].k, sel[i].v.v))] :
        i \in {n \in 1..Len(sel) : IsStr(sel[n].v)}}
    \cup UNION {
        {[decl |-> [sel EXCEPT ![i] = Pair(sel[i].k, ListV(RemoveAt(sel[i].v.v, j)))],
          file |-> add_yaml_extension(PathJoin(sel[i].k, sel[i].v.v[j].v))] :
            j \in {n \in 1..Len(sel[i].v.v) : IsStr(sel[i].v.v[n])}} :
        i \in {n \in 1..Len(sel) : IsList(sel[n].v)}}

\* a defaults sequence with one fragment taken out of it
SequenceReductions(items) ==
    {[decl |-> RemoveAt(items, i), file |-> add_yaml_extension(items[i].v)] :
        i \in {n \in 1..Len(items) : IsStr(items[n])}}
    \cup UNION {
        {[decl |-> [items EXCEPT ![i] = DictV(r.decl)], file |-> r.file] :
            r \in SelectorReductions(items[i].v)} :
        i \in {n \in 1..Len(items) : IsDict(items[n])}}

Reductions(decl) ==
    IF IsDict(decl)
    THEN {[decl |-> DictV(r.decl), file |-> r.file] : r \in SelectorReductions(decl.v)}
    ELSE IF IsList(decl)
    THEN {[decl |-> ListV(r.decl), file |-> r.file] : r \in SequenceReductions(decl.v)}
    ELSE {}

\* the root document is rewritten without one declared fragment whose document is
\* empty, and is then resolved again
DropEmptyFragment ==
    /\ pc = "done"
    /\ DeclaresDefaults
    /\ \E r \in Reductions(Declaration) :
        /\ PathJoin(ConfigDir, r.file) \in DOMAIN fs
        /\ fs[PathJoin(ConfigDir, r.file)] = NoneV
        /\ fs' = [fs EXCEPT ![RootFile] = DictV(DictSet(Root, BASE_DEFAULT_KEYWORD, r.decl))]
    /\ pc' = "idle"
    /\ ret' = Idle
    /\ before' = ret
    /\ UNCHANGED <<req, found, M, environ, parser, nested, cfg, last, argv, counter, calls, given, built>>

NextReload == LoadYamlConfig \/ DropEmptyFragment

SpecReload == InitLoad /\ [][NextReload]_vars

\* a declared fragment (mapping or sequence form) that neither extension finds
DeclaredMissing ==
    \E i \in 1..Len(DeclaredFiles) :
        find_yaml_path(PathJoin(ConfigDir, DeclaredFiles[i])).exc # ""
DeclaredEmpty ==
    \E i \in 1..Len(DeclaredFiles) :
        open_yaml(PathJoin(ConfigDir, DeclaredFiles[i])) = Ok(NoneV)

(* C10, as claimed: when the defaults declaration (mapping or sequence form) names a
   fragment that is empty or missing, and nothing else is composed, load_yaml_config
   does not raise. *)
C10_EmptyOrMissingTolerated ==
    (pc = "done" /\ (DeclaredMissing \/ DeclaredEmpty)
        /\ ~DictHas(Root, BASE_COLLECTION_KEYWORD)) => ret.exc = ""

(* C10, amended: a declared fragment whose document is empty counts as an empty
   mapping: taking it out of the declaration, at any position of the mapping form or
   of the sequence form, leaves the outcome of load_yaml_config as it was; a declared
   fragment that is missing makes load_yaml_config raise FileNotFoundError. *)
C10_EmptyFragmentIsNeutral ==
    /\ (pc = "done" /\ DeclaredMissing) => ret.exc = "FileNotFoundError"
    /\ (pc = "done" /\ before # Idle) => ret = before

\* a resolution that returned again, after an empty fragment was taken out from
\* beside a fragment that gave a key
C10_Witness ==
    /\ Returned
    /\ before # Idle
    /\ \E key \in FragmentKeys : DictHas(Result, key) /\ ~DictHas(Root, key)

----------------------------------------------------------------------------
(* find_yaml_path on one requested path *)

FindBases == {PathJoin(ConfigDir, NameP), PathJoin(ConfigDir, NameQ),
              PathJoin(ConfigDir, PathJoin(DirM, NameP))}
WrittenExts == {<<>>, YamlExt, YmlExt, <<".", "t", "x", "t">>}
FindFiles == {b \o e : b \in FindBases, e \in {YamlExt, YmlExt}}

InitFind ==
    /\ fs \in {[f \in present |-> NoneV] : present \in SUBSET FindFiles}
    /\ req \in {b \o e : b \in FindBases, e \in WrittenExts}
    /\ found = Idle
    /\ pc = "idle"
    /\ ret = Idle /\ before = Idle
    /\ FlatIdle /\ ConfigIdle /\ UnlockIdle /\ ConstructIdle

FindYamlPath ==
    /\ pc = "idle"
    /\ pc' = "done"
    /\ found' = find_yaml_path(req)
    /\ UNCHANGED <<fs, ret, before, req, M, environ, parser, nested, cfg, last, argv, counter, calls, given, built>>

NextFind == FindYamlPath

SpecFind == InitFind /\ [][NextFind]_vars

\* what the claim expects for a base path, given which extension it prefers
ExpectedPath(base, preferred, other) ==
    IF IsFile(base \o preferred) THEN Ok(base \o preferred)
    ELSE IF IsFile(base \o other) THEN Ok(base \o other)
    ELSE Raise("FileNotFoundError")

(* C6, as claimed: for every base path and every extension written in the request,
   find_yaml_path returns <base>.yaml when both files exist, the one that exists
   when only one does, and raises FileNotFoundError when neither does. *)
C6_YamlPreferred ==
    pc = "done" =>
        \A b \in FindBases, e \in WrittenExts :
            req = b \o e => found = ExpectedPath(b, YamlExt, YmlExt)

(* C6, amended: for every base path and every extension written in the request,
   find_yaml_path returns <base>.yml when both files exist, the one that exists when
   only one does, and raises FileNotFoundError when neither does. *)
C6_YmlPreferred ==
    pc = "done" =>
        \A b \in FindBases, e \in WrittenExts :
            req = b \o e => found = ExpectedPath(b, YmlExt, YamlExt)

\* a request written with .yaml, both files present, answered with the .yml path
C6_Witness ==
    /\ pc = "done"
    /\ EndsWith(req, YamlExt)
    /\ IsFile(req)
    /\ found.exc = "" /\ EndsWith(found.val, YmlExt)

----------------------------------------------------------------------------
(* The Config object: its attributes are a dict of the model, tagged "config" *)

ConfigV(attrs) == [t |-> "config", v |-> attrs]
IsConfig(x) == x.t = "config"

RECURSIVE init_from_dict(_, _, _), Config_init(_, _)
\* the loop of Config._init_from_dict over the items i.. of the dictionary; self is
\* the attributes set so far
init_from_dict(self, dictionary, i) ==
    IF i > Len(dictionary) THEN Ok(ConfigV(self))
    ELSE Bind(IF IsDict(dictionary[i].v) THEN Config_init(<<dictionary[i].v>>, <<>>)
              ELSE Ok(dictionary[i].v),
              LAMBDA value :
                init_from_dict(DictSet(self, dictionary[i].k, value), dictionary, i + 1))
\* a constructor that lets a positional mapping in beside keyword arguments
Config_init_mixing(args, kwargs) ==
    IF ~(Len(args) = 0 \/ Len(args) = 1) THEN Raise("ValueError")
    ELSE IF Len(args) = 1
    THEN (IF ~IsDict(args[1]) THEN Raise("ValueError") ELSE init_from_dict(<<>>, args[1].v, 1))
    ELSE init_from_dict(<<>>, kwargs, 1)
\* Config(*args, **kwargs)
Config_init(args, kwargs) ==
    IF Len(args) # 0 /\ Len(kwargs) # 0 THEN Raise("ValueError")
    ELSE IF ~(Len(args) = 0 \/ Len(args) = 1) THEN Raise("ValueError")
    ELSE IF Len(args) = 1
    THEN (IF ~IsDict(args[1]) THEN Raise("ValueError") ELSE init_from_dict(<<>>, args[1].v, 1))
    ELSE init_from_dict(<<>>, kwargs, 1)

\* the outcome of a method on self: exc when it raises, the value it gives, and the
\* attributes of self after it
Did(e, value, self) == [exc |-> e, val |-> value, self |-> self]

Config_getitem(self, key) ==
    IF DictHas(self, key) THEN Did("", DictGet(self, key), self)
    ELSE Did("AttributeError", NoneV, self)

\* c.name: the instance attribute of that name, AttributeError when there is none
Config_getattribute(self, name) ==
    IF \E i \in 1..Len(self) : self[i].k = name
    THEN Ok((CHOOSE p \in {self[i] : i \in 1..Len(self)} : p.k = name).v)
    ELSE Raise("AttributeError")

Config_setitem(self, key, value) == Did("", NoneV, DictSet(self, key, value))

\* __delitem__ calls self.__delattr__() without the name: the call is refused before
\* any attribute is touched
Config_delitem(self, key) == Did("TypeError", NoneV, self)

ConfigKeys == {KeyA, KeyB, KeyK}
ConfigLeaves == {IntV(1), IntV(2)}
\* {}, {a: 1}, {a: 2, b: 1}, {a: {b: 2}, k: 1}, ...: the dicts Config is built from
FlatDicts == UNION {[1..n -> {Pair(KeyB, x) : x \in ConfigLeaves}] : n \in 0..1}
ConfigDicts ==
    {SelectSeq(<<Pair(KeyA, va), Pair(KeyB, vb), Pair(KeyK, vk)>>, LAMBDA p : p.v # Missing) :
        va \in ConfigLeaves \cup {DictV(d) : d \in FlatDicts} \cup {Missing},
        vb \in ConfigLeaves \cup {Missing},
        vk \in {IntV(1), Missing}}

InitConfig ==
    /\ cfg \in {Config_init(<<DictV(d)>>, <<>>).val.v : d \in ConfigDicts}
    /\ last = [op |-> "init", key |-> <<>>, had |-> FALSE, was |-> <<>>, exc |-> "", val |-> NoneV]
    /\ pc = "idle"
    /\ LoadIdle /\ FindIdle /\ FlatIdle /\ UnlockIdle /\ ConstructIdle

\* one operation on the object: last keeps the key, whether it was an attribute, the
\* attributes before the operation, and the outcome
Apply(op, key, did) ==
    /\ cfg' = did.self
    /\ last' = [op |-> op, key |-> key, had |-> DictHas(cfg, key), was |-> cfg,
                exc |-> did.exc, val |-> did.val]
    /\ UNCHANGED <<fs, pc, ret, before, req, found, M, environ, parser, nested, argv, counter, calls, given, built>>

GetItem == \E key \in ConfigKeys : Apply("get", key, Config_getitem(cfg, key))
SetItem == \E key \in ConfigKeys, value \in ConfigLeaves :
                Apply("set", key, Config_setitem(cfg, key, value))
DelItem == \E key \in ConfigKeys : Apply("del", key, Config_delitem(cfg, key))

NextConfig == GetItem \/ SetItem \/ DelItem

SpecConfig == InitConfig /\ [][NextConfig]_vars

(* C8: after `del c[k]` for a key k of c, the deletion has raised nothing, k is no
   longer a key of c, and every other key of c holds the value it held. *)
C8_DeletionRemovesKey ==
    (last.op = "del" /\ last.had) =>
        /\ last.exc = ""
        /\ ~DictHas(cfg, last.key)
        /\ \A key \in DictKeys(last.was) \ {last.key} :
                DictHas(cfg, key) /\ DictGet(cfg, key) = DictGet(last.was, key)

----------------------------------------------------------------------------
(* core.unlock: the calls one process makes, and the counter kept on the function *)

\* the most unlock calls a behaviour makes
MaxCalls == 3

BASE_CL_CONFIG_KEYWORD == "config"
ConfigKeywords == {BASE_CL_CONFIG_KEYWORD, "cfg"}
\* config_name: None, or the name the decorator was given
ConfigNames == {NoneV, StrV(ConfigName)}

\* unlock._command_line_unlock.get(config_argument_keyword, 0)
counter_get(attr, config_argument_keyword) ==
    IF IsDict(attr) /\ DictHas(attr.v, config_argument_keyword)
    THEN DictGet(attr.v, config_argument_keyword).v
    ELSE 0

\* lines 92-94: the attribute is created, and the keyword counted, only while the
\* function has no attribute _command_line_unlock
count_unlock(attr, config_argument_keyword) ==
    IF attr = NoneV
    THEN DictV(<<Pair(config_argument_keyword, IntV(counter_get(DictV(<<>>), config_argument_keyword) + 1))>>)
    ELSE attr

\* lines 86-98, given whether the command line supplied a path under the keyword
after_command_line(attr, config_argument_keyword, supplied) ==
    IF supplied THEN count_unlock(attr, config_argument_keyword) ELSE attr

InitUnlock ==
    /\ argv \in SUBSET ConfigKeywords
    /\ counter = NoneV
    /\ calls = <<>>
    /\ pc = "idle"
    /\ LoadIdle /\ FindIdle /\ FlatIdle /\ ConfigIdle /\ ConstructIdle

Unlock ==
    \E config_name \in ConfigNames, config_argument_keyword \in ConfigKeywords :
        /\ Len(calls) < MaxCalls
        /\ counter' = after_command_line(counter, config_argument_keyword,
                                         config_argument_keyword \in argv)
        /\ calls' = Append(calls,
                [keyword |-> config_argument_keyword,
                 supplied |-> config_argument_keyword \in argv,
                 warned |-> config_argument_keyword \in argv
                            /\ counter_get(counter', config_argument_keyword) > 1,
                 count |-> counter_get(counter', config_argument_keyword),
                 exc |-> IF config_argument_keyword \notin argv /\ config_name = NoneV
                         THEN "ValueError" ELSE ""])
        /\ UNCHANGED <<fs, pc, ret, before, req, found, M, environ, parser, nested, cfg, last, argv,
                     given, built>>

NextUnlock == Unlock

SpecUnlock == InitUnlock /\ [][NextUnlock]_vars

\* the calls up to the i-th that had a command-line path under the i-th call's keyword
SuppliedUpTo(i) ==
    {j \in 1..i : calls[j].supplied /\ calls[j].keyword = calls[i].keyword}

(* C9: of the unlock calls made with a command-line config path, the first under a
   keyword does not warn, the second and every later one under that keyword warns,
   the counter of the keyword is the number of such calls so far, and none of them
   fails. *)
C9_LaterCallsWarn ==
    \A i \in 1..Len(calls) :
        calls[i].supplied =>
            /\ calls[i].warned <=> Cardinality(SuppliedUpTo(i)) > 1
            /\ calls[i].count = Cardinality(SuppliedUpTo(i))
            /\ calls[i].exc = ""

----------------------------------------------------------------------------
(* Flags from a mapping, and the nested Config from the parsed flags *)

\* ArgumentParser.add_argument of one "--<name>" option: the parser is the dict of
\* its flag names and defaults, and a second option of the same name is a conflict
add_argument(arg_parser, name, default) ==
    IF DictHas(arg_parser, name) THEN Raise("ArgumentError")
    ELSE Ok(Append(arg_parser, Pair(name, default)))

\* str.startswith(c), and key[1:]
StartsWith(s, c) == Len(s) > 0 /\ s[1] = c
Rest(s) == SubSeq(s, 2, Len(s))

\* lines 351-364: the flag of one leaf
add_leaf(arg_parser, key, value, prefix) ==
    IF StartsWith(key, "$")
    THEN add_argument(arg_parser, prefix \o Rest(key),
                      IF DictHas(environ, Rest(key)) THEN DictGet(environ, Rest(key)) ELSE value)
    ELSE IF StartsWith(key, "?")
    THEN add_argument(arg_parser, prefix \o Rest(key), value)
    ELSE add_argument(arg_parser, prefix \o key, value)

RECURSIVE add_args_from_dict(_, _, _, _)
\* the loop of add_args_from_dict over the items i.. of config_dict
add_args_from_dict(arg_parser, config_dict, prefix, i) ==
    IF i > Len(config_dict) THEN Ok(arg_parser)
    ELSE Bind(IF IsDict(config_dict[i].v)
              THEN add_args_from_dict(arg_parser, config_dict[i].v.v,
                                      prefix \o config_dict[i].k \o <<".">>, 1)
              ELSE add_leaf(arg_parser, config_dict[i].k, config_dict[i].v, prefix),
              LAMBDA added : add_args_from_dict(added, config_dict, prefix, i + 1))

RECURSIVE Split(_, _)
\* str.split(sep) for a one-character separator
Split(s, sep) ==
    IF \A i \in 1..Len(s) : s[i] # sep THEN <<s>>
    ELSE <<SubSeq(s, 1, (CHOOSE i \in 1..Len(s) : s[i] = sep /\ \A j \in 1..(i - 1) : s[j] # sep) - 1)>>
         \o Split(SubSeq(s, (CHOOSE i \in 1..Len(s) : s[i] = sep /\ \A j \in 1..(i - 1) : s[j] # sep) + 1,
                         Len(s)), sep)

RECURSIVE set_nested_collapsing(_, _, _)
\* a walk that starts every intermediate dictionary afresh
set_nested_collapsing(current_dict, keys, value) ==
    IF Len(keys) = 1 THEN Ok(DictSet(current_dict, keys[1], value))
    ELSE Bind(set_nested_collapsing(<<>>, Tail(keys), value),
              LAMBDA inner : Ok(DictSet(current_dict, keys[1], DictV(inner))))

RECURSIVE set_nested(_, _, _)
\* lines 401-406: walk keys[:-1] from current_dict, creating the dictionaries that are
\* not there, and assign value under keys[-1]
set_nested(current_dict, keys, value) ==
    IF Len(keys) = 1 THEN Ok(DictSet(current_dict, keys[1], value))
    ELSE IF ~DictHas(current_dict, keys[1])
    THEN Bind(set_nested(<<>>, Tail(keys), value),
              LAMBDA inner : Ok(DictSet(current_dict, keys[1], DictV(inner))))
    ELSE IF ~IsDict(DictGet(current_dict, keys[1])) THEN Raise("TypeError")
    ELSE Bind(set_nested(DictGet(current_dict, keys[1]).v, Tail(keys), value),
              LAMBDA inner : Ok(DictSet(current_dict, keys[1], DictV(inner))))

RECURSIVE nest_items(_, _, _)
\* the loop of config_to_nested_config over the items i.. of vars(config)
nest_items(nested_dict, config, i) ==
    IF i > Len(config) THEN Ok(nested_dict)
    ELSE Bind(set_nested(nested_dict, Split(config[i].k, "."), config[i].v),
              LAMBDA updated : nest_items(updated, config, i + 1))

config_to_nested_config(config) ==
    Bind(nest_items(<<>>, config, 1),
         LAMBDA nested_dict : Config_init(<<DictV(nested_dict)>>, <<>>))

\* the most values a leaf of the mapping is drawn from
MaxLeaf == 2

KeySigilA == <<"$", "a">>
Leaves == {IntV(n) : n \in 1..MaxLeaf}
\* a dict over the given keys, in their order, a key left out where its value is Missing
DictOf2(k1, v1, k2, v2) == SelectSeq(<<Pair(k1, v1), Pair(k2, v2)>>, LAMBDA p : p.v # Missing)
DictOf3(k1, v1, k2, v2, k3, v3) ==
    SelectSeq(<<Pair(k1, v1), Pair(k2, v2), Pair(k3, v3)>>, LAMBDA p : p.v # Missing)
\* {}, {a: 1}, {a: 2, b: 1}, ...
Inner == {DictV(DictOf2(KeyA, va, KeyB, vb)) :
            va \in Leaves \cup {Missing}, vb \in Leaves \cup {Missing}}
\* {a: {a: 1, b: 2}}, {a: {}}, ...
Deeper == {DictV(<<Pair(KeyA, d)>>) : d \in Inner}
Mappings ==
    {DictOf3(KeyA, va, KeyB, vb, KeySigilA, vs) :
        va \in Leaves \cup Inner \cup Deeper \cup {Missing},
        vb \in Leaves \cup Inner \cup {Missing},
        vs \in {IntV(1), Missing}}

InitFlat ==
    /\ M \in Mappings
    /\ environ \in {<<>>, <<Pair(KeyA, StrV(<<"x">>))>>}
    /\ parser = Idle
    /\ nested = Idle
    /\ pc = "idle"
    /\ LoadIdle /\ FindIdle /\ ConfigIdle /\ UnlockIdle /\ ConstructIdle

\* the flags are registered and, no flag being on the command line, parsed to their
\* defaults
AddArgsFromDict ==
    /\ pc = "idle"
    /\ parser' = add_args_from_dict(<<>>, M, <<>>, 1)
    /\ pc' = IF parser'.exc # "" THEN "done" ELSE "flat"
    /\ UNCHANGED <<fs, ret, before, req, found, M, environ, nested, cfg, last, argv, counter, calls, given, built>>

ConfigToNestedConfig ==
    /\ pc = "flat"
    /\ nested' = config_to_nested_config(parser.val)
    /\ pc' = "done"
    /\ UNCHANGED <<fs, ret, before, req, found, M, environ, parser, cfg, last, argv, counter, calls, given, built>>

NextFlat == AddArgsFromDict \/ ConfigToNestedConfig

SpecFlat == InitFlat /\ [][NextFlat]_vars

RECURSIVE SameTree(_, _)
\* a Config and a mapping with the same keys and, under each, the same value
SameTree(c, m) ==
    IF IsDict(m)
    THEN /\ IsConfig(c)
         /\ DictKeys(c.v) = DictKeys(m.v)
         /\ \A key \in DictKeys(m.v) : SameTree(DictGet(c.v, key), DictGet(m.v, key))
    ELSE c = m

RECURSIVE AllKeys(_), HasEmptyMapping(_)
\* the keys of a mapping at every depth
AllKeys(m) ==
    DictKeys(m) \cup UNION {AllKeys(m[i].v.v) : i \in {n \in 1..Len(m) : IsDict(m[n].v)}}
\* a nested mapping with no key in it
HasEmptyMapping(m) ==
    \E i \in 1..Len(m) : IsDict(m[i].v) /\ (m[i].v.v = <<>> \/ HasEmptyMapping(m[i].v.v))
NoDots(m) == \A key \in AllKeys(m) : \A i \in 1..Len(key) : key[i] # "."
NoSigils(m) == \A key \in AllKeys(m) : ~StartsWith(key, "$") /\ ~StartsWith(key, "?")

(* C7, as claimed: for every nested mapping M whose keys contain no dot, the flags
   add_args_from_dict names for M, rebuilt by config_to_nested_config, give a Config
   with the key set and the values of M. *)
C7_RoundTrip ==
    (pc = "done" /\ NoDots(M)) =>
        /\ parser.exc = "" /\ nested.exc = ""
        /\ SameTree(nested.val, DictV(M))

(* C7, amended: for every nested mapping M whose keys contain no dot and do not start
   with a sigil ($ or ?) and whose nested mappings each hold at least one key, the
   flags add_args_from_dict names for M, rebuilt by config_to_nested_config, give a
   Config with the key set and the values of M. *)
C7_RoundTripOfLeaves ==
    (pc = "done" /\ NoDots(M) /\ NoSigils(M) /\ ~HasEmptyMapping(M)) =>
        /\ parser.exc = "" /\ nested.exc = ""
        /\ SameTree(nested.val, DictV(M))

\* a rebuilt mapping in which a.a and a.b lie under one a, two levels down, beside a
\* top-level leaf
C7_Witness ==
    /\ pc = "done" /\ nested.exc = ""
    /\ NoSigils(M) /\ ~HasEmptyMapping(M)
    /\ DictHas(parser.val, <<"a", ".", "a", ".", "a">>)
    /\ DictHas(parser.val, <<"a", ".", "a", ".", "b">>)
    /\ DictHas(parser.val, KeyB)
    /\ SameTree(nested.val, DictV(M))

----------------------------------------------------------------------------
(* The Config constructor on one argument list *)

MaxArgs == 2
\* {a: {a: {b: 1}}}: a mapping under a mapping under a mapping
DeepDict == <<Pair(KeyA, DictV(<<Pair(KeyA, DictV(<<Pair(KeyB, IntV(1))>>))>>))>>
\* {a: [{b: 1}], k: 2}: a mapping held by a list
ListDict == <<Pair(KeyA, ListV(<<DictV(<<Pair(KeyB, IntV(1))>>)>>)), Pair(KeyK, IntV(2))>>
CtorDicts == ConfigDicts \cup {DeepDict, ListDict}
\* positional arguments: mappings, and values that are no mapping
Positionals ==
    {DictV(<<>>), DictV(<<Pair(KeyA, IntV(1))>>), DictV(DeepDict), IntV(1), StrV(KeyA), NoneV}
ArgLists ==
    {[args |-> a, kwargs |-> k] : a \in SeqsUpTo(Positionals, MaxArgs), k \in CtorDicts}
        \cup {[args |-> <<DictV(d)>>, kwargs |-> <<>>] : d \in CtorDicts}

InitConstruct ==
    /\ given \in ArgLists
    /\ built = Idle
    /\ pc = "idle"
    /\ LoadIdle /\ FindIdle /\ FlatIdle /\ ConfigIdle /\ UnlockIdle

Construct ==
    /\ pc = "idle"
    /\ pc' = "done"
    /\ built' = Config_init(given.args, given.kwargs)
    /\ UNCHANGED <<fs, ret, before, req, found, M, environ, parser, nested, cfg, last, argv, counter,
                   calls, given>>

NextConstruct == Construct

SpecConstruct == InitConstruct /\ [][NextConstruct]_vars

\* a positional argument beside keyword arguments; more than one positional argument
Mixed == Len(given.args) # 0 /\ Len(given.kwargs) # 0
TooMany == Len(given.args) > 1
\* one mapping, or only keyword arguments, or nothing
Accepted == ~Mixed /\ ~TooMany /\ (Len(given.args) = 1 => IsDict(given.args[1]))
\* the mapping the Config is built from
Supplied == IF Len(given.args) = 1 THEN given.args[1] ELSE DictV(given.kwargs)

RECURSIVE ReadsAgree(_)
\* c[k] and c.k give the same value for every key k of c, and of every Config under c
ReadsAgree(c) ==
    \A key \in DictKeys(c.v) :
        /\ Config_getitem(c.v, key).exc = ""
        /\ Config_getattribute(c.v, key).exc = ""
        /\ Config_getitem(c.v, key).val = Config_getattribute(c.v, key).val
        /\ IsConfig(DictGet(c.v, key)) => ReadsAgree(DictGet(c.v, key))

(* C11: Config(...) raises ValueError whenever it is given a positional argument
   together with keyword arguments, and whenever it is given more than one positional
   argument; given one mapping, or only keyword arguments, or nothing, it raises
   nothing and the Config it builds has exactly the keys of the input, every nested
   mapping already a nested Config, and c[k] equal to c.k for every key k. *)
C11_ConstructionErrors ==
    pc = "done" =>
        /\ (Mixed \/ TooMany) => built.exc = "ValueError"
        /\ Accepted =>
            /\ built.exc = ""
            /\ SameTree(built.val, Supplied)
            /\ ReadsAgree(built.val)

\* Config(a={a: {b: 1}}): keyword arguments only, three mappings deep, and the
\* innermost is a Config as soon as the constructor returns
C11_Witness ==
    /\ pc = "done" /\ Accepted
    /\ given.args = <<>> /\ given.kwargs = DeepDict
    /\ built.exc = ""
    /\ IsConfig(DictGet(DictGet(built.val.v, KeyA).v, KeyA))
    /\ Config_getitem(built.val.v, KeyA).val = Config_getattribute(built.val.v, KeyA).val

====
